---- MODULE Spec2Model ----
(***************************************************************************)
(* Model of the Latitude MCP adapter (yigitkonur/mcp-latitude-ai):         *)
(*   - ConfigLoader (src/utils/config.util.ts): layered configuration      *)
(*   - api.ts request() and the service client                             *)
(*     (src/services/vendor.latitude.service.ts): credential resolution,   *)
(*     outbound fetch, timeout, response handling                          *)
(*   - the error classifier (src/utils/error-handler.util.ts)              *)
(***************************************************************************)
EXTENDS Integers, Sequences, FiniteSets, TLC

VARIABLES
    launchEnv,      \* process.env as the process was started
    processEnv,     \* process.env restricted to the keys the program reads
    envFile,        \* the .env file of the working directory
    globalConfig,   \* $HOME/.mcp/configs.json
    configLoaded,   \* ConfigLoader.configLoaded
    reads,          \* how often each configuration source has been read
    loadCalls,      \* how often config.load() has been called
    server,         \* server.ts module variable: "null" | "created"
    call,           \* the in-flight call of one of the HTTP clients
    outbound,       \* number of fetch() invocations so far
    resolved,       \* credentials returned by successful resolutions so far
    now,            \* wall clock, in ms
    thrown,         \* classifier specification: the value given to detectErrorType
    detected,       \* classifier specification: what detectErrorType returned
    attempts,       \* fetch() invocations made for the operation in flight
    response,       \* the Response the call in flight received from fetch()
    stream,         \* the generator fetchLatitudeStream() returned, its reader
                    \* and decoder, and the consumer of the generator
    received,       \* what the caller of the controller operation received
    boundary,       \* outer boundary: the error given to it and what it rendered
    deploy,         \* the deployToLive call in flight
    shutdown,       \* signal handlers of setupGracefulShutdown and the exit
    calls,          \* concurrent specification: the calls of request() in flight
    walk            \* the loop of a getDeepOriginalError call

vars == <<launchEnv, processEnv, envFile, globalConfig, configLoaded, reads, loadCalls, server,
          call, outbound, resolved, now, thrown, detected, attempts, response,
          stream, received, boundary, deploy, shutdown, calls, walk>>

configVars == <<launchEnv, processEnv, envFile, globalConfig, configLoaded, reads, loadCalls>>
classifierVars == <<thrown, detected>>
operationVars == <<attempts, response, stream, received>>
moduleVars == <<boundary, deploy, shutdown, calls, walk>>

----------------------------------------------------------------------------
(* JavaScript values *)

\* the JavaScript value undefined, for string-valued slots
Undefined == "<undefined>"
\* the JavaScript value undefined, for number-valued slots (statusCode, timeout)
UndefinedNum == -1

\* JavaScript truthiness of a string-or-undefined value
Truthy(v) == v # Undefined /\ v # ""
\* JavaScript truthiness of a number-or-undefined value
TruthyNum(n) == n # UndefinedNum /\ n # 0

----------------------------------------------------------------------------
(* Configuration: src/utils/config.util.ts *)

API_KEY == "LATITUDE_API_KEY"
BASE_URL == "LATITUDE_BASE_URL"
PROJECT_ID == "LATITUDE_PROJECT_ID"
Keys == {API_KEY, BASE_URL, PROJECT_ID}

\* keys the configuration files of the model define
FileKeys == {API_KEY, BASE_URL}

\* the section keys loadFromGlobalConfig tries, in order
packageName == "mcp-latitude-prompts"
potentialKeys == <<"latitude", packageName, packageName>>
SectionKeys == {potentialKeys[i] : i \in 1..Len(potentialKeys)}

EmptyMap == [k \in Keys |-> Undefined]

\* a section of the global file without an "environments" member
NoSection == [environments |-> FALSE, vars |-> EmptyMap]

\* config.get(key): process.env[key] || defaultValue, with no default
get(key) == IF Truthy(processEnv[key]) THEN processEnv[key] ELSE Undefined

\* the section loadFromGlobalConfig uses: the first potential key whose
\* section has environments; 0 when there is none
foundConfigSection(cfg) ==
    LET hits == {i \in 1..Len(potentialKeys) :
                    cfg.sections[potentialKeys[i]].environments}
    IN IF hits = {} THEN 0 ELSE CHOOSE i \in hits : \A j \in hits : i <= j

\* loadFromGlobalConfig: process.env after the call
loadFromGlobalConfig(env, cfg) ==
    IF ~cfg.exists \/ ~cfg.parses THEN env
    ELSE LET i == foundConfigSection(cfg) IN
         IF i = 0 THEN env
         ELSE LET environments == cfg.sections[potentialKeys[i]].vars IN
              [k \in Keys |->
                  IF environments[k] # Undefined /\ env[k] = Undefined
                  THEN environments[k] ELSE env[k]]

\* loadFromEnvFile: dotenv.config() with the default override = false sets
\* only the keys process.env does not own yet
loadFromEnvFile(env, file) ==
    IF ~file.exists THEN env
    ELSE [k \in Keys |->
             IF file.vars[k] # Undefined /\ env[k] = Undefined
             THEN file.vars[k] ELSE env[k]]

\* calls of config.load() in one run
MaxLoadCalls == 2

\* load() without the "already loaded" guard
load_NoGuard ==
    /\ processEnv' = loadFromEnvFile(
                         loadFromGlobalConfig(processEnv, globalConfig),
                         envFile)
    /\ reads' = [global |-> reads.global + 1, dotenv |-> reads.dotenv + 1]
    /\ configLoaded' = TRUE

\* ConfigLoader.load()
load ==
    IF configLoaded
    THEN UNCHANGED <<processEnv, configLoaded, reads>>
    ELSE /\ processEnv' = loadFromEnvFile(
                              loadFromGlobalConfig(processEnv, globalConfig),
                              envFile)
         /\ reads' = [global |-> reads.global + 1, dotenv |-> reads.dotenv + 1]
         /\ configLoaded' = TRUE

----------------------------------------------------------------------------
(* Errors: src/utils/error.util.ts, src/api.ts *)

\* the substrings detectErrorType looks for in a message; a message is
\* modelled by the set of these substrings it contains (no one of them
\* contains another, so every set is the content of some message)
NetworkPatterns == {"network error", "fetch failed", "ECONNREFUSED",
                    "ENOTFOUND", "Failed to fetch", "Network request failed"}
RateLimitPatterns == {"rate limit", "too many requests"}
NotFoundPatterns == {"not found", "does not exist"}
AccessPatterns == {"access", "permission", "authorize", "authentication"}
CursorSubjectPatterns == {"cursor", "startAt", "page"}
CursorInvalidPatterns == {"invalid", "not valid"}
ValidationPatterns == {"validation", "invalid", "required"}
Patterns == NetworkPatterns \cup RateLimitPatterns \cup NotFoundPatterns
              \cup AccessPatterns \cup CursorSubjectPatterns
              \cup CursorInvalidPatterns \cup ValidationPatterns

\* message.includes(pattern)
includes(message, pattern) == pattern \in message

\* ErrorType
AUTH_MISSING == "AUTH_MISSING"
AUTH_INVALID == "AUTH_INVALID"
API_ERROR == "API_ERROR"
UNEXPECTED_ERROR == "UNEXPECTED_ERROR"
ErrorType == {AUTH_MISSING, AUTH_INVALID, API_ERROR, UNEXPECTED_ERROR}

\* a thrown value.  class: its constructor; isError: instanceof Error;
\* hasStatus: 'statusCode' in error; type is "" outside McpError
ErrorValue(class, type, name, errorCode, statusCode, hasStatus, message) ==
    [class |-> class, isError |-> TRUE, type |-> type, name |-> name,
     errorCode |-> errorCode, statusCode |-> statusCode,
     hasStatus |-> hasStatus, message |-> message]

\* new McpError(message, type, statusCode)
McpError(message, type, statusCode) ==
    ErrorValue("McpError", type, "McpError", "", statusCode, TRUE, message)

createAuthMissingError(message) == McpError(message, AUTH_MISSING, UndefinedNum)
createAuthInvalidError(message) == McpError(message, AUTH_INVALID, 401)
createApiError(message, statusCode) == McpError(message, API_ERROR, statusCode)
createUnexpectedError(message) == McpError(message, UNEXPECTED_ERROR, UndefinedNum)

\* new LatitudeApiError({name, errorCode, message}, statusCode)
LatitudeApiError(name, errorCode, message, statusCode) ==
    ErrorValue("LatitudeApiError", "", name, errorCode, statusCode, TRUE, message)

\* new Error(message)
PlainError(message) ==
    ErrorValue("Error", "", "Error", "", UndefinedNum, FALSE, message)

\* ensureMcpError: an McpError as it is, an Error wrapped with itself as
\* originalError, another value by its String()
ensureMcpError(error) ==
    IF error.class = "McpError" THEN error
    ELSE IF error.isError
    THEN createUnexpectedError(error.message) @@ [originalError |-> error]
    ELSE createUnexpectedError(error.message)

----------------------------------------------------------------------------
(* Credential resolution *)

\* constants.util.ts LATITUDE_BASE_URL and api.ts DEFAULT_BASE_URL
LATITUDE_BASE_URL == "https://gateway.latitude.so"
DEFAULT_BASE_URL == "https://gateway.latitude.so"

NoCredentials == [apiKey |-> Undefined, baseUrl |-> Undefined]
NoError == [class |-> "none", isError |-> FALSE, type |-> "", name |-> "",
            errorCode |-> "", statusCode |-> UndefinedNum,
            hasStatus |-> FALSE, message |-> {}]

\* a resolution that returned: the function that resolved and its result
Resolution(by, credentials) == [by |-> by, credentials |-> credentials]

Returned(credentials) == [ok |-> TRUE, credentials |-> credentials, error |-> NoError]
Threw(error) == [ok |-> FALSE, credentials |-> NoCredentials, error |-> error]

\* getLatitudeCredentials() without the check of the key
getLatitudeCredentials_NoKeyCheck ==
    Returned([apiKey |-> get(API_KEY),
              baseUrl |-> IF Truthy(get(BASE_URL)) THEN get(BASE_URL)
                          ELSE LATITUDE_BASE_URL])

\* service: getLatitudeCredentials().  The message of the error it throws,
\* 'LATITUDE_API_KEY is required. Set it in ...', contains "required"
getLatitudeCredentials ==
    LET apiKey == get(API_KEY)
        baseUrl == IF Truthy(get(BASE_URL)) THEN get(BASE_URL)
                   ELSE LATITUDE_BASE_URL
    IN IF ~Truthy(apiKey)
       THEN Threw(createAuthInvalidError({"required"}))
       ELSE Returned([apiKey |-> apiKey, baseUrl |-> baseUrl])

\* api.ts: getConfig() (apiKey and baseUrl of the result)
getConfig ==
    LET apiKey == get(API_KEY)
        projectId == get(PROJECT_ID)
        baseUrl == IF Truthy(get(BASE_URL)) THEN get(BASE_URL)
                   ELSE DEFAULT_BASE_URL
    IN IF ~Truthy(apiKey) THEN Threw(PlainError({"required"}))
       ELSE IF ~Truthy(projectId) THEN Threw(PlainError({"required"}))
       ELSE Returned([apiKey |-> apiKey, baseUrl |-> baseUrl])

----------------------------------------------------------------------------
(* The HTTP clients: api.ts request(), service fetchLatitudeApi() and
   fetchLatitudeStream().  One call is in flight at a time; `call` holds the
   position of its handler between two awaits. *)

API_TIMEOUT_MS == 60000

\* granularity of the clock and the last instant it reaches
TimeStep == API_TIMEOUT_MS \div 2
MaxTime == 120000
\* fetch() invocations of one run
MaxOutbound == 2

\* values of options.timeout the callers pass (undefined, 0, 30 s, 90 s)
TimeoutOptions == {UndefinedNum, 0, 30000, 90000}

\* responses of the upstream: status, a 'content-length: 0' header or not,
\* response.body null or not
Statuses == {200, 204, 401, 403, 404, 422, 429, 500, 503}
Responses ==
    [status : Statuses, contentLengthZero : BOOLEAN, bodyNull : {FALSE}]
      \cup [status : {200}, contentLengthZero : {TRUE}, bodyNull : {TRUE}]

\* no Response: fetch() has not resolved for the operation in flight
NoResponse == [status |-> 0, contentLengthZero |-> FALSE, bodyNull |-> FALSE]

\* the messages a Latitude error payload of the model carries
PayloadMessages == {{}, {"not found"}}

NoResult == [kind |-> "none", error |-> NoError]
Value == [kind |-> "value", error |-> NoError]
EmptyObject == [kind |-> "empty", error |-> NoError]
Stream == [kind |-> "stream", error |-> NoError]
Failure(error) == [kind |-> "error", error |-> error]

\* a controller result { content } built from the chunks of a stream
Content(text) == [kind |-> "content", error |-> NoError, content |-> text]

\* no generator: the operation in flight has returned no stream
NoStream ==
    [state |-> "none", reader |-> "none", releases |-> 0, pending |-> <<>>,
     values |-> <<>>, chunks |-> <<>>, outcome |-> "none", error |-> NoError,
     consumer |-> "none", returnQueued |-> FALSE]

\* fetchLatitudeStream(): response.body.getReader(), new TextDecoder() and
\* the generator object streamGenerator() returns, its body not yet started
streamGenerator ==
    [NoStream EXCEPT !.state = "suspendedStart", !.reader = "open"]

Idle == [client |-> "none", pc |-> "idle", timeout |-> 0, start |-> 0,
         timer |-> FALSE, status |-> 0, result |-> NoResult]

Settled(client, result) ==
    [client |-> client, pc |-> "settled", timeout |-> 0, start |-> 0,
     timer |-> FALSE, status |-> 0, result |-> result]

response_ok(status) == status >= 200 /\ status <= 299

\* handlers registered before config.load() has run
Serving_BeforeLoad == TRUE

\* createServer() registers the handlers after config.load(): a handler
\* runs in a process whose configuration is loaded
Serving == configLoaded /\ server = "created"
CanStart == Serving /\ call.pc \in {"idle", "settled"} /\ outbound < MaxOutbound

\* api.ts request(), up to its first await: getConfig, setTimeout, fetch
request(timeoutOption) ==
    /\ CanStart
    /\ LET config == getConfig IN
       IF ~config.ok
       THEN /\ call' = Settled("api", Failure(config.error))
            /\ attempts' = 0
            /\ UNCHANGED <<outbound, resolved>>
       ELSE /\ resolved' = resolved \cup {Resolution("getConfig", config.credentials)}
            /\ outbound' = outbound + 1
            /\ attempts' = 1
            /\ call' = [client |-> "api", pc |-> "fetching",
                        timeout |-> IF TruthyNum(timeoutOption)
                                    THEN timeoutOption ELSE API_TIMEOUT_MS,
                        start |-> now, timer |-> TRUE, status |-> 0,
                        result |-> NoResult]
    /\ response' = NoResponse
    /\ stream' = NoStream
    /\ received' = NoResult
    /\ UNCHANGED <<configVars, server, now, classifierVars, moduleVars>>

\* service fetchLatitudeApi(), up to its first await
fetchLatitudeApi ==
    /\ CanStart
    /\ LET credentials == getLatitudeCredentials IN
       IF ~credentials.ok
       THEN /\ call' = Settled("service", Failure(credentials.error))
            /\ attempts' = 0
            /\ UNCHANGED <<outbound, resolved>>
       ELSE /\ resolved' = resolved \cup
                  {Resolution("getLatitudeCredentials", credentials.credentials)}
            /\ outbound' = outbound + 1
            /\ attempts' = 1
            /\ call' = [client |-> "service", pc |-> "fetching", timeout |-> 0,
                        start |-> now, timer |-> FALSE, status |-> 0,
                        result |-> NoResult]
    /\ response' = NoResponse
    /\ stream' = NoStream
    /\ received' = NoResult
    /\ UNCHANGED <<configVars, server, now, classifierVars, moduleVars>>

\* service fetchLatitudeStream(), up to its first await
fetchLatitudeStream ==
    /\ CanStart
    /\ LET credentials == getLatitudeCredentials IN
       IF ~credentials.ok
       THEN /\ call' = Settled("stream", Failure(credentials.error))
            /\ attempts' = 0
            /\ UNCHANGED <<outbound, resolved>>
       ELSE /\ resolved' = resolved \cup
                  {Resolution("getLatitudeCredentials", credentials.credentials)}
            /\ outbound' = outbound + 1
            /\ attempts' = 1
            /\ call' = [client |-> "stream", pc |-> "fetching", timeout |-> 0,
                        start |-> now, timer |-> FALSE, status |-> 0,
                        result |-> NoResult]
    /\ response' = NoResponse
    /\ stream' = NoStream
    /\ received' = NoResult
    /\ UNCHANGED <<configVars, server, now, classifierVars, moduleVars>>

\* clients that take a body for empty only by its content-length header
AfterResponse_ContentLengthOnly(c, r) ==
    IF c.client = "stream"
    THEN IF ~response_ok(r.status)
         THEN [c EXCEPT !.pc = "readingText", !.status = r.status]
         ELSE IF r.bodyNull
         THEN Settled("stream", Failure(createApiError({}, 500)))
         ELSE Settled("stream", Stream)
    ELSE IF ~response_ok(r.status)
         THEN [c EXCEPT !.pc = "readingText", !.timer = FALSE,
                        !.status = r.status]
         ELSE IF r.contentLengthZero
         THEN Settled(c.client, EmptyObject)
         ELSE [c EXCEPT !.pc = "readingJson", !.timer = FALSE,
                        !.status = r.status]

\* the position after `await fetch(...)` resolved with a response
AfterResponse(c, r) ==
    IF c.client = "api"
    THEN \* clearTimeout(timeoutId), then the status and empty-body checks
         IF ~response_ok(r.status)
         THEN [c EXCEPT !.pc = "readingText", !.timer = FALSE, !.status = r.status]
         ELSE IF r.contentLengthZero \/ r.status = 204
         THEN Settled("api", EmptyObject)
         ELSE [c EXCEPT !.pc = "readingJson", !.timer = FALSE, !.status = r.status]
    ELSE IF c.client = "service"
    THEN IF ~response_ok(r.status)
         THEN [c EXCEPT !.pc = "readingText", !.status = r.status]
         ELSE IF r.contentLengthZero \/ r.status = 204
         THEN Settled("service", EmptyObject)
         ELSE [c EXCEPT !.pc = "readingJson", !.status = r.status]
    ELSE \* fetchLatitudeStream
         IF ~response_ok(r.status)
         THEN [c EXCEPT !.pc = "readingText", !.status = r.status]
         ELSE IF r.bodyNull
         THEN Settled("stream", Failure(createApiError({}, 500)))
         ELSE Settled("stream", Stream)

\* the upstream answers: fetch() resolves
ResponseArrives ==
    /\ call.pc = "fetching"
    /\ \E r \in Responses :
         /\ call' = AfterResponse(call, r)
         /\ response' = r
         /\ stream' = IF AfterResponse(call, r).result = Stream
                      THEN streamGenerator ELSE stream
    /\ UNCHANGED <<configVars, server, outbound, resolved, now, classifierVars,
                   attempts, received, moduleVars>>

\* new TypeError(message): what fetch() and a body read reject with on a
\* network failure
TypeError(message) ==
    ErrorValue("TypeError", "", "TypeError", "", UndefinedNum, FALSE, message)

\* new SyntaxError(message): what response.json() rejects with
SyntaxError(message) ==
    ErrorValue("SyntaxError", "", "SyntaxError", "", UndefinedNum, FALSE, message)

\* api.ts request(): the catch block
requestCatch(error) ==
    IF error.class = "LatitudeApiError" THEN error
    ELSE IF error.isError /\ error.name = "AbortError"
    THEN LatitudeApiError("TimeoutError", "TIMEOUT", {}, 408)
    ELSE LatitudeApiError("NetworkError", "NETWORK_ERROR", error.message, 0)

\* a catch block that wraps every error, an McpError too, in a new one
fetchLatitudeApiCatch_Wrapping(error) ==
    IF error.class = "TypeError"
    THEN createApiError(error.message, UndefinedNum)
    ELSE createUnexpectedError(error.message)

\* service fetchLatitudeApi(): the catch block
fetchLatitudeApiCatch(error) ==
    IF error.class = "McpError" THEN error
    ELSE IF error.class = "TypeError"
    THEN createApiError(error.message, UndefinedNum)
    ELSE createUnexpectedError(error.message)

\* api.ts request(): the error thrown for a non-success response whose text
\* is `body` (inside the try block)
requestHttpError(status, body) ==
    IF body.kind = "latitudeError"
    THEN LatitudeApiError("PayloadName", "PayloadCode", body.message, status)
    ELSE IF body.kind = "otherJson"
    THEN LatitudeApiError(Undefined, Undefined, {}, status)
    ELSE IF body.kind = "nullJson"
    THEN \* reading error.message of null in the constructor
         TypeError({})
    ELSE IF body.kind = "text"
    THEN LatitudeApiError("HTTPError", "HTTP_" \o ToString(status),
                          body.message, status)
    ELSE LatitudeApiError("HTTPError", "HTTP_" \o ToString(status), {}, status)

\* service fetchLatitudeApi(): the error thrown for a non-success response.
\* errorData is defined for a Latitude error payload only; of the default
\* messages only 'Resource not found.' contains a classifier substring
fetchLatitudeApiHttpError(status, body) ==
    LET hasMessage == body.kind = "latitudeError" /\ body.text
        message(default) == IF hasMessage THEN body.message ELSE default
    IN IF status = 401 THEN createAuthInvalidError(message({}))
       ELSE IF status = 403 THEN createAuthInvalidError(message({}))
       ELSE IF status = 404 THEN createApiError(message({"not found"}), status)
       ELSE IF status = 422 THEN createApiError(message({}), status)
       ELSE createApiError(message({}), status)

\* the texts of a non-success body.  kind: a Latitude error payload
\* {name, errorCode, message}, another JSON object, the JSON null, text that
\* is not JSON, or the empty text; text: whether the message is a non-empty
\* string; message: the classifier substrings it contains
ErrorTexts ==
    [kind : {"latitudeError", "text"}, text : {TRUE}, message : PayloadMessages]
      \cup [kind : {"latitudeError"}, text : {FALSE}, message : {{}}]
      \cup [kind : {"otherJson", "nullJson", "empty"}, text : {FALSE},
            message : {{}}]

\* a client that fetches again after any non-success response
TextArrives_Retrying ==
    /\ call.pc = "readingText"
    /\ IF attempts < 3
       THEN /\ call' = [call EXCEPT !.pc = "fetching", !.status = 0]
            /\ attempts' = attempts + 1
            /\ outbound' = outbound + 1
       ELSE /\ call' = Settled(call.client, Failure(createApiError({}, call.status)))
            /\ UNCHANGED <<attempts, outbound>>
    /\ UNCHANGED <<configVars, server, resolved, now, classifierVars,
                   response, stream, received, moduleVars>>

\* `await response.text()` resolves on a non-success response
TextArrives ==
    /\ call.pc = "readingText"
    /\ \E body \in ErrorTexts :
         call' = Settled(call.client,
                   IF call.client = "api"
                   THEN Failure(requestCatch(requestHttpError(call.status, body)))
                   ELSE IF call.client = "service"
                   THEN Failure(fetchLatitudeApiCatch(
                                  fetchLatitudeApiHttpError(call.status, body)))
                   ELSE Failure(createApiError({}, call.status)))
    /\ UNCHANGED <<configVars, server, outbound, resolved, now, classifierVars,
                   operationVars, moduleVars>>

\* `await response.json()` settles on a success response
JsonArrives ==
    /\ call.pc = "readingJson"
    /\ \E valid \in BOOLEAN :
         call' = Settled(call.client,
                   IF valid THEN Value
                   ELSE IF call.client = "api"
                   THEN Failure(requestCatch(SyntaxError({})))
                   ELSE Failure(fetchLatitudeApiCatch(SyntaxError({}))))
    /\ UNCHANGED <<configVars, server, outbound, resolved, now, classifierVars,
                   operationVars, moduleVars>>

\* the connection fails: the pending fetch() or body read rejects with a
\* TypeError ('fetch failed', 'terminated')
ConnectionFails ==
    /\ call.pc \in {"fetching", "readingText", "readingJson"}
    /\ LET error == TypeError(IF call.pc = "fetching" THEN {"fetch failed"}
                              ELSE {})
       IN call' = Settled(call.client,
                    IF call.client = "api" THEN Failure(requestCatch(error))
                    ELSE IF call.client = "service"
                    THEN Failure(fetchLatitudeApiCatch(error))
                    ELSE Failure(error))
    /\ UNCHANGED <<configVars, server, outbound, resolved, now, classifierVars,
                   operationVars, moduleVars>>

\* the AbortError the aborted fetch() rejects with
AbortError ==
    ErrorValue("DOMException", "", "AbortError", "", UndefinedNum, FALSE, {})

\* the timer set by request() is due
TimerDue == call.timer /\ now - call.start >= call.timeout

\* the timeout callback of request(): controller.abort(); the pending
\* fetch() rejects with an AbortError and the catch block runs
TimerFires ==
    /\ TimerDue
    /\ call' = Settled("api", Failure(requestCatch(AbortError)))
    /\ UNCHANGED <<configVars, server, outbound, resolved, now, classifierVars,
                   operationVars, moduleVars>>

\* time passes; a due timer fires before the clock moves on
Tick ==
    /\ ~TimerDue
    /\ now + TimeStep <= MaxTime
    /\ now' = now + TimeStep
    /\ UNCHANGED <<configVars, server, call, outbound, resolved, classifierVars,
                   operationVars, moduleVars>>

----------------------------------------------------------------------------
(* The error classifier: src/utils/error-handler.util.ts *)

\* ErrorCode (UNEXPECTED_ERROR is the same string in ErrorType and ErrorCode)
NOT_FOUND == "NOT_FOUND"
INVALID_CURSOR == "INVALID_CURSOR"
ACCESS_DENIED == "ACCESS_DENIED"
VALIDATION_ERROR == "VALIDATION_ERROR"
NETWORK_ERROR == "NETWORK_ERROR"
RATE_LIMIT_ERROR == "RATE_LIMIT_ERROR"
ErrorCode == {NOT_FOUND, INVALID_CURSOR, ACCESS_DENIED, VALIDATION_ERROR,
              UNEXPECTED_ERROR, NETWORK_ERROR, RATE_LIMIT_ERROR}

Detection(code, statusCode) == [code |-> code, statusCode |-> statusCode]
NoDetection == Detection("none", UndefinedNum)

\* message.includes(p) for some p of the set
includesAny(message, patterns) == \E p \in patterns : includes(message, p)

\* the status without the explicit statusCode
accessDeniedStatus_Fixed(statusCode) == 403
unexpectedStatus_Fixed(statusCode) == 500

\* statusCode || 403
accessDeniedStatus(statusCode) ==
    IF TruthyNum(statusCode) THEN statusCode ELSE 403
\* statusCode || 500
unexpectedStatus(statusCode) ==
    IF TruthyNum(statusCode) THEN statusCode ELSE 500

\* detectErrorType(error)
detectErrorType(error) ==
    LET errorMessage == error.message
        statusCode == IF error.isError /\ error.hasStatus
                      THEN error.statusCode ELSE UndefinedNum
    IN IF includesAny(errorMessage, NetworkPatterns)
       THEN Detection(NETWORK_ERROR, 500)
       ELSE IF includesAny(errorMessage, RateLimitPatterns) \/ statusCode = 429
       THEN Detection(RATE_LIMIT_ERROR, 429)
       ELSE IF includesAny(errorMessage, NotFoundPatterns) \/ statusCode = 404
       THEN Detection(NOT_FOUND, 404)
       ELSE IF \/ includesAny(errorMessage, AccessPatterns)
               \/ statusCode = 401
               \/ statusCode = 403
       THEN Detection(ACCESS_DENIED, accessDeniedStatus(statusCode))
       ELSE IF /\ includesAny(errorMessage, CursorSubjectPatterns)
               /\ includesAny(errorMessage, CursorInvalidPatterns)
       THEN Detection(INVALID_CURSOR, 400)
       ELSE IF \/ includesAny(errorMessage, ValidationPatterns)
               \/ statusCode = 400
               \/ statusCode = 422
       THEN Detection(VALIDATION_ERROR,
                      IF TruthyNum(statusCode) THEN statusCode ELSE 400)
       ELSE Detection(UNEXPECTED_ERROR, unexpectedStatus(statusCode))

\* substrings of one thrown message
MaxPatterns == 2

\* the statusCode values thrown values carry
StatusCodes == {0, 400, 401, 403, 404, 418, 422, 429, 500, 502, 503, 504}

Messages == {m \in SUBSET Patterns : Cardinality(m) <= MaxPatterns}

\* the values given to the classifier: Error objects with or without a
\* statusCode member (possibly undefined), and values that are no Error
\* (strings; objects with a statusCode member, whose String() is
\* '[object Object]')
ThrownValues ==
    {ErrorValue("Error", "", "Error", "", sc, TRUE, m) :
        sc \in StatusCodes \cup {UndefinedNum}, m \in Messages}
    \cup {PlainError(m) : m \in Messages}
    \cup {[PlainError(m) EXCEPT !.class = "string", !.isError = FALSE] :
            m \in Messages}
    \cup {[ErrorValue("Object", "", "", "", sc, TRUE, {})
             EXCEPT !.isError = FALSE] : sc \in StatusCodes}

\* a caller hands a thrown value to detectErrorType
DetectErrorType ==
    /\ thrown # NoError
    /\ detected = NoDetection
    /\ detected' = detectErrorType(thrown)
    /\ UNCHANGED <<configVars, server, call, outbound, resolved, now, thrown,
                   operationVars, moduleVars>>

----------------------------------------------------------------------------
(* The controller: controllers/latitude.controller.ts, and
   handleControllerError of src/utils/error-handler.util.ts *)

\* createUserFriendlyErrorMessage with ' Error details: ' and the original
\* message appended for every code
createUserFriendlyErrorMessage_AlwaysAppends(code, originalMessage) ==
    IF code = NOT_FOUND THEN {"not found", "access"} \cup originalMessage
    ELSE IF code = ACCESS_DENIED THEN {"permission"} \cup originalMessage
    ELSE IF code = INVALID_CURSOR THEN {"cursor"} \cup originalMessage
    ELSE originalMessage

\* createUserFriendlyErrorMessage(code, context, originalMessage), with the
\* context the controllers build (entityType 'Latitude'): the classifier
\* substrings of the text, case-sensitively.  'Latitude ... not found: ...
\* Verify the ID is correct and that you have access to this latitude.',
\* 'Access denied for latitude ... Verify your credentials and permissions.',
\* 'Invalid pagination cursor. Use the exact cursor string ...'; the other
\* texts contain none.  ' Error details: ' and the original message are
\* appended except for NOT_FOUND and ACCESS_DENIED
createUserFriendlyErrorMessage(code, originalMessage) ==
    IF code = NOT_FOUND THEN {"not found", "access"}
    ELSE IF code = ACCESS_DENIED THEN {"permission"}
    ELSE IF code = INVALID_CURSOR THEN {"cursor"} \cup originalMessage
    ELSE originalMessage

\* handleControllerError without the explicit status of the error
handleControllerError_DetectedStatusOnly(error) ==
    LET errorMessage == error.message
        detection == detectErrorType(error)
        message == IF detection.code = VALIDATION_ERROR THEN errorMessage
                   ELSE createUserFriendlyErrorMessage(detection.code,
                                                       errorMessage)
    IN createApiError(message, detection.statusCode)
         @@ [originalError |-> error]

\* handleControllerError(error, context): the McpError it throws.
\* createApiError(message, finalStatusCode, error) keeps the error it was
\* given as originalError
handleControllerError(error) ==
    LET errorMessage == error.message
        statusCode == IF error.isError /\ error.hasStatus
                      THEN error.statusCode ELSE UndefinedNum
        detection == detectErrorType(error)
        finalStatusCode == IF TruthyNum(statusCode) THEN statusCode
                           ELSE detection.statusCode
        message == IF detection.code = VALIDATION_ERROR THEN errorMessage
                   ELSE createUserFriendlyErrorMessage(detection.code,
                                                       errorMessage)
    IN createApiError(message, finalStatusCode) @@ [originalError |-> error]

\* a controller operation over fetchLatitudeApi (listProjects and the
\* like), from the point where `await latitudeService...` settles: return
\* formatOutput(result), or throw handleControllerError(error) from the
\* catch block
listProjects ==
    /\ call.pc = "settled"
    /\ call.client = "service"
    /\ received = NoResult
    /\ received' = IF call.result.kind = "error"
                   THEN Failure(handleControllerError(call.result.error))
                   ELSE call.result
    /\ UNCHANGED <<configVars, server, call, outbound, resolved, now,
                   classifierVars, attempts, response, stream, moduleVars>>

----------------------------------------------------------------------------
(* The stream: streamGenerator() of fetchLatitudeStream(), its reader and
   decoder, and the consumers of the generator *)

\* bytes of the model: "a" is an ASCII byte, "L" the lead byte and "C" the
\* continuation byte of a two-byte character
Bytes == {"a", "L", "C"}
\* reads that return a value, per stream
MaxReads == 3

\* the values reader.read() returns: a single byte, a whole two-byte
\* character, a value that ends inside a character and one that starts
\* inside a character
Values == {<<b>> : b \in Bytes} \cup {<<"L", "C">>, <<"a", "L">>, <<"C", "a">>}

\* one step of the UTF-8 decoder: the characters emitted and the bytes kept
\* for the next step.  An incomplete sequence followed by a byte that does
\* not continue it emits U+FFFD and the byte is decoded again.  The
\* characters are "a", the two-byte character "E" and U+FFFD "?"
decodeByte(pending, byte) ==
    IF pending = <<>>
    THEN IF byte = "a" THEN [text |-> <<"a">>, pending |-> <<>>]
         ELSE IF byte = "L" THEN [text |-> <<>>, pending |-> <<"L">>]
         ELSE [text |-> <<"?">>, pending |-> <<>>]
    ELSE IF byte = "C" THEN [text |-> <<"E">>, pending |-> <<>>]
         ELSE IF byte = "a" THEN [text |-> <<"?", "a">>, pending |-> <<>>]
         ELSE [text |-> <<"?">>, pending |-> <<"L">>]

\* decoder.decode(value, { stream: true }): the text returned and the bytes
\* the decoder keeps
RECURSIVE decode(_, _)
decode(pending, value) ==
    IF value = <<>> THEN [text |-> <<>>, pending |-> pending]
    ELSE LET first == decodeByte(pending, Head(value))
             rest == decode(first.pending, Tail(value))
         IN [text |-> first.text \o rest.text, pending |-> rest.pending]

\* chunks.join(''), and the concatenation of the byte arrays read
RECURSIVE join(_)
join(chunks) ==
    IF chunks = <<>> THEN <<>> ELSE Head(chunks) \o join(Tail(chunks))

\* the finally block of streamGenerator(): reader.releaseLock()
releaseLock(s) == [s EXCEPT !.releases = @ + 1]

\* the generator completes: its finally block has run
Completed(s, outcome) ==
    [releaseLock(s) EXCEPT !.state = "completed", !.outcome = outcome]

StreamOpen == call.pc = "settled" /\ call.client = "stream"

\* a consumer other than the controller calls next() on the generator: the
\* body runs up to `await reader.read()`
generatorNext ==
    /\ StreamOpen
    /\ stream.consumer \in {"none", "direct"}
    /\ stream.state \in {"suspendedStart", "suspendedYield"}
    /\ stream' = [stream EXCEPT !.consumer = "direct", !.state = "executing"]
    /\ UNCHANGED <<configVars, server, call, outbound, resolved, now,
                   classifierVars, attempts, response, received, moduleVars>>

\* a consumer calls return() on the generator (what `break` in a for await
\* loop does).  A generator that never started completes without running
\* its body, hence without its finally block; one suspended at `yield`
\* runs the finally block; one that is awaiting the read takes the request
\* when it reaches `yield`
generatorReturn ==
    /\ StreamOpen
    /\ stream.consumer \in {"none", "direct"}
    /\ stream.state \in {"suspendedStart", "suspendedYield", "executing"}
    /\ ~stream.returnQueued
    /\ stream' =
         IF stream.state = "suspendedStart"
         THEN [stream EXCEPT !.consumer = "direct", !.state = "completed",
                             !.outcome = "returned"]
         ELSE IF stream.state = "suspendedYield"
         THEN Completed([stream EXCEPT !.consumer = "direct"], "returned")
         ELSE [stream EXCEPT !.returnQueued = TRUE]
    /\ UNCHANGED <<configVars, server, call, outbound, resolved, now,
                   classifierVars, attempts, response, received, moduleVars>>

\* a consumer drops the generator and calls nothing more on it
abandon ==
    /\ StreamOpen
    /\ stream.consumer \in {"none", "direct"}
    /\ stream.state \in {"suspendedStart", "suspendedYield", "executing"}
    /\ ~stream.returnQueued
    /\ stream' = [stream EXCEPT !.consumer = "gone"]
    /\ UNCHANGED <<configVars, server, call, outbound, resolved, now,
                   classifierVars, attempts, response, received, moduleVars>>

\* reader.read() resolves with { done: false, value }: the chunk is decoded
\* and yielded.  A queued return() completes the generator at the yield; the
\* for await loop of the controller pushes the chunk and calls next() again
ReadValue ==
    /\ stream.state = "executing"
    /\ stream.reader = "open"
    /\ Len(stream.values) < MaxReads
    /\ \E value \in Values :
         LET decoded == decode(stream.pending, value)
             yielded == [stream EXCEPT !.values = Append(@, value),
                                       !.chunks = Append(@, decoded.text),
                                       !.pending = decoded.pending]
         IN stream' =
              IF stream.returnQueued THEN Completed(yielded, "returned")
              ELSE IF stream.consumer = "forAwait" THEN yielded
              ELSE [yielded EXCEPT !.state = "suspendedYield"]
    /\ UNCHANGED <<configVars, server, call, outbound, resolved, now,
                   classifierVars, attempts, response, received, moduleVars>>

\* reader.read() resolves with { done: true }: break, then the finally block
ReadDone ==
    /\ stream.state = "executing"
    /\ stream.reader = "open"
    /\ stream' = Completed([stream EXCEPT !.reader = "done"],
                           IF stream.returnQueued THEN "returned" ELSE "done")
    /\ UNCHANGED <<configVars, server, call, outbound, resolved, now,
                   classifierVars, attempts, response, received, moduleVars>>

\* a failed read taken for the end of the stream
ReadFails_Swallowed ==
    /\ stream.state = "executing"
    /\ stream.reader = "open"
    /\ stream' = Completed([stream EXCEPT !.reader = "errored"], "done")
    /\ UNCHANGED <<configVars, server, call, outbound, resolved, now,
                   classifierVars, attempts, response, received, moduleVars>>

\* reader.read() rejects (the connection is lost: TypeError 'terminated'):
\* the finally block runs and the error leaves the generator
ReadFails ==
    /\ stream.state = "executing"
    /\ stream.reader = "open"
    /\ stream' = Completed([stream EXCEPT !.reader = "errored",
                                          !.error = TypeError({})],
                           "threw")
    /\ UNCHANGED <<configVars, server, call, outbound, resolved, now,
                   classifierVars, attempts, response, received, moduleVars>>

\* controller runPrompt / chat with stream = true, from the point where
\* `await latitudeService.runDocument(...)` settles: a failure goes to the
\* catch block, a generator is consumed by `for await`, whose first step is
\* next()
runPrompt ==
    /\ StreamOpen
    /\ received = NoResult
    /\ stream.consumer = "none"
    /\ IF call.result.kind = "error"
       THEN /\ received' = Failure(handleControllerError(call.result.error))
            /\ UNCHANGED stream
       ELSE /\ stream' = [stream EXCEPT !.consumer = "forAwait",
                                        !.state = "executing"]
            /\ UNCHANGED received
    /\ UNCHANGED <<configVars, server, call, outbound, resolved, now,
                   classifierVars, attempts, response, moduleVars>>

\* the for await loop of runPrompt / chat ends: return { content:
\* chunks.join('') } when the generator is done, the catch block when it
\* threw
runPromptEnds ==
    /\ stream.consumer = "forAwait"
    /\ stream.state = "completed"
    /\ received = NoResult
    /\ received' = IF stream.outcome = "threw"
                   THEN Failure(handleControllerError(stream.error))
                   ELSE Content(join(stream.chunks))
    /\ UNCHANGED <<configVars, server, call, outbound, resolved, now,
                   classifierVars, attempts, response, stream, moduleVars>>

----------------------------------------------------------------------------
(* The outer boundary: formatErrorForMcpTool, handleCliError and
   getDeepOriginalError of src/utils/error.util.ts *)

\* a substring that is no classifier substring: text that carries it came
\* from the body of an upstream response
UpstreamDetail == "upstream detail"

\* the JavaScript values undefined and '' where an error object is expected
UndefinedValue == [NoError EXCEPT !.class = "undefined"]
EmptyString == [NoError EXCEPT !.class = "string"]

\* a string, and an object { message } that is no Error
StringValue(text) ==
    [PlainError(text) EXCEPT !.class = "string", !.isError = FALSE]
ObjectValue(message) ==
    [PlainError(message) EXCEPT !.class = "Object", !.isError = FALSE]

\* the value is truthy
truthy(value) == value # UndefinedValue /\ value # EmptyString

\* error.originalError
originalErrorOf(error) ==
    IF "originalError" \in DOMAIN error THEN error.originalError
    ELSE UndefinedValue

\* new McpError(message, type, statusCode, originalError) from an McpError
\* built without originalError
withOriginalError(error, originalError) ==
    error @@ [originalError |-> originalError]

\* getDeepOriginalError: maxDepth
maxDepth == 10

\* getDeepOriginalError: the loop condition
followsOriginalError(current, depth) ==
    /\ depth < maxDepth
    /\ current.isError
    /\ "originalError" \in DOMAIN current
    /\ truthy(current.originalError)

\* getDeepOriginalError: the loop, from `current` at `depth`
RECURSIVE deepOriginalErrorFrom(_, _)
deepOriginalErrorFrom(current, depth) ==
    IF followsOriginalError(current, depth)
    THEN deepOriginalErrorFrom(current.originalError, depth + 1)
    ELSE current

\* getDeepOriginalError(error)
getDeepOriginalError(error) ==
    IF ~truthy(error) THEN error ELSE deepOriginalErrorFrom(error, 0)

\* formatErrorForMcpTool as the audit of the repository found it: the
\* result has no isError flag
formatErrorForMcpTool_NoFlag(error) ==
    LET mcpError == ensureMcpError(error)
    IN [content |-> <<[type |-> "text", text |-> mcpError.message]>>,
        isError |-> FALSE,
        metadata |-> [errorType |-> mcpError.type,
                      statusCode |-> mcpError.statusCode,
                      errorDetails |->
                          getDeepOriginalError(originalErrorOf(mcpError))]]

\* formatErrorForMcpTool(error): the tool result.  text is 'Error: ' and
\* the message; errorDetails is { message } of the deepest original error
\* when that is an Error, the value itself otherwise
formatErrorForMcpTool(error) ==
    LET mcpError == ensureMcpError(error)
        originalError == getDeepOriginalError(originalErrorOf(mcpError))
        errorDetails == IF originalError.isError
                        THEN ObjectValue(originalError.message)
                        ELSE originalError
    IN [content |-> <<[type |-> "text", text |-> mcpError.message]>>,
        isError |-> TRUE,
        metadata |-> [errorType |-> mcpError.type,
                      statusCode |-> mcpError.statusCode,
                      errorDetails |-> errorDetails]]

\* handleCliError(error): the substrings of what console.error printed, and
\* the exit code.  Of the tips only 'Tip: You may have exceeded your API
\* rate limits. ...' contains a classifier substring; the line 'API error:'
\* carries the message of the deepest original error when that is an object
handleCliError(error, debug) ==
    LET mcpError == ensureMcpError(error)
        originalError == getDeepOriginalError(originalErrorOf(mcpError))
        tip == IF mcpError.type = API_ERROR /\ mcpError.statusCode = 429
               THEN {"rate limit"} ELSE {}
        apiError == IF /\ mcpError.type = API_ERROR
                       /\ truthy(originalError)
                       /\ originalError.class # "string"
                    THEN originalError.message ELSE {}
    IN [printed |-> mcpError.message \cup tip \cup apiError,
        debugTip |-> ~debug,
        exitCode |-> 1]

\* the body of a non-success response as the service reads it:
\* errorData || errorText, the third argument of createApiError
errorDataOrText(body) ==
    IF body.kind = "latitudeError" THEN ObjectValue(body.message)
    ELSE IF body.kind = "empty" THEN EmptyString
    ELSE StringValue(body.message)

\* service fetchLatitudeApi(): the error thrown for a non-success response,
\* with its originalError (none for 401 and 403)
fetchLatitudeApiError(status, body) ==
    IF status \in {401, 403} THEN fetchLatitudeApiHttpError(status, body)
    ELSE withOriginalError(fetchLatitudeApiHttpError(status, body),
                           errorDataOrText(body))

\* bodies of non-success responses whose text carries the upstream detail
UpstreamTexts ==
    ErrorTexts
      \cup [kind : {"latitudeError", "text"}, text : {TRUE},
            message : {{UpstreamDetail}, {UpstreamDetail, "not found"}}]

\* the errors given to the outer boundary: those a controller throws for a
\* failed service call, and values thrown past the controllers (an Error, a
\* string, undefined, an McpError)
BoundaryStatuses == {401, 403, 404, 422, 429, 500}
BoundaryErrors ==
    {handleControllerError(fetchLatitudeApiError(status, body)) :
        status \in BoundaryStatuses, body \in UpstreamTexts}
      \cup {handleControllerError(TypeError({"fetch failed"}))}
      \cup {PlainError({}), PlainError({UpstreamDetail}), StringValue({}),
            UndefinedValue, createAuthMissingError({"required"}),
            createUnexpectedError({})}

NoBoundary ==
    [error |-> NoError, by |-> "none", code |-> "none", result |-> NoError]

\* a tool handler catches the error: return formatErrorForMcpTool(error)
FormatErrorForMcpTool ==
    /\ boundary.by = "none"
    /\ boundary' = [boundary EXCEPT
                      !.by = "tool",
                      !.result = formatErrorForMcpTool(boundary.error)]
    /\ UNCHANGED <<configVars, server, call, outbound, resolved, now,
                   classifierVars, operationVars, deploy, shutdown, calls,
                   walk>>

\* a CLI command catches the error: handleCliError(error)
HandleCliError ==
    /\ boundary.by = "none"
    /\ \E debug \in BOOLEAN :
         boundary' = [boundary EXCEPT
                        !.by = "cli",
                        !.result = handleCliError(boundary.error, debug)]
    /\ UNCHANGED <<configVars, server, call, outbound, resolved, now,
                   classifierVars, operationVars, deploy, shutdown, calls,
                   walk>>

\* createUserFriendlyErrorMessage(code, context, originalMessage) is called
\* with the message of the error
CreateUserFriendlyErrorMessage ==
    /\ boundary.by = "none"
    /\ \E code \in ErrorCode :
         boundary' = [boundary EXCEPT
                        !.by = "message",
                        !.code = code,
                        !.result = createUserFriendlyErrorMessage(
                                       code, boundary.error.message)]
    /\ UNCHANGED <<configVars, server, call, outbound, resolved, now,
                   classifierVars, operationVars, deploy, shutdown, calls,
                   walk>>

----------------------------------------------------------------------------
(* Concurrent operations: several calls of request(), fetchLatitudeApi()
   and fetchLatitudeStream() in flight in one process.  calls[i] holds the
   locals of call i (timer, position, status, result); an action is the
   code one call runs between two awaits *)

\* the calls in flight
Calls == {"first", "second"}

NoCalls == [i \in Calls |-> Idle]

CanStartAt(i) == Serving /\ calls[i].pc \in {"idle", "settled"}

\* api.ts request(), up to its first await
requestAt(i, timeoutOption) ==
    /\ CanStartAt(i)
    /\ LET config == getConfig IN
       calls' = [calls EXCEPT ![i] =
                   IF ~config.ok THEN Settled("api", Failure(config.error))
                   ELSE [client |-> "api", pc |-> "fetching",
                         timeout |-> IF TruthyNum(timeoutOption)
                                     THEN timeoutOption ELSE API_TIMEOUT_MS,
                         start |-> now, timer |-> TRUE, status |-> 0,
                         result |-> NoResult]]
    /\ UNCHANGED <<configVars, server, call, outbound, resolved, now,
                   classifierVars, operationVars, boundary, deploy, shutdown,
                   walk>>

\* service fetchLatitudeApi() and fetchLatitudeStream(), up to the first
\* await
fetchLatitudeAt(i, client) ==
    /\ CanStartAt(i)
    /\ LET credentials == getLatitudeCredentials IN
       calls' = [calls EXCEPT ![i] =
                   IF ~credentials.ok
                   THEN Settled(client, Failure(credentials.error))
                   ELSE [client |-> client, pc |-> "fetching", timeout |-> 0,
                         start |-> now, timer |-> FALSE, status |-> 0,
                         result |-> NoResult]]
    /\ UNCHANGED <<configVars, server, call, outbound, resolved, now,
                   classifierVars, operationVars, boundary, deploy, shutdown,
                   walk>>

\* `await fetch(...)` of call i resolves
ResponseArrivesAt(i) ==
    /\ calls[i].pc = "fetching"
    /\ \E r \in Responses :
         calls' = [calls EXCEPT ![i] = AfterResponse(calls[i], r)]
    /\ UNCHANGED <<configVars, server, call, outbound, resolved, now,
                   classifierVars, operationVars, boundary, deploy, shutdown,
                   walk>>

\* `await response.text()` of call i resolves on a non-success response
TextArrivesAt(i) ==
    /\ calls[i].pc = "readingText"
    /\ \E body \in ErrorTexts :
         calls' = [calls EXCEPT ![i] =
                     Settled(calls[i].client,
                       IF calls[i].client = "api"
                       THEN Failure(requestCatch(
                                      requestHttpError(calls[i].status, body)))
                       ELSE IF calls[i].client = "service"
                       THEN Failure(fetchLatitudeApiCatch(
                                      fetchLatitudeApiHttpError(calls[i].status,
                                                                body)))
                       ELSE Failure(createApiError({}, calls[i].status)))]
    /\ UNCHANGED <<configVars, server, call, outbound, resolved, now,
                   classifierVars, operationVars, boundary, deploy, shutdown,
                   walk>>

\* `await response.json()` of call i settles
JsonArrivesAt(i) ==
    /\ calls[i].pc = "readingJson"
    /\ \E valid \in BOOLEAN :
         calls' = [calls EXCEPT ![i] =
                     Settled(calls[i].client,
                       IF valid THEN Value
                       ELSE IF calls[i].client = "api"
                       THEN Failure(requestCatch(SyntaxError({})))
                       ELSE Failure(fetchLatitudeApiCatch(SyntaxError({}))))]
    /\ UNCHANGED <<configVars, server, call, outbound, resolved, now,
                   classifierVars, operationVars, boundary, deploy, shutdown,
                   walk>>

\* the connection of call i fails
ConnectionFailsAt(i) ==
    /\ calls[i].pc \in {"fetching", "readingText", "readingJson"}
    /\ LET error == TypeError(IF calls[i].pc = "fetching"
                              THEN {"fetch failed"} ELSE {})
       IN calls' = [calls EXCEPT ![i] =
                      Settled(calls[i].client,
                        IF calls[i].client = "api"
                        THEN Failure(requestCatch(error))
                        ELSE IF calls[i].client = "service"
                        THEN Failure(fetchLatitudeApiCatch(error))
                        ELSE Failure(error))]
    /\ UNCHANGED <<configVars, server, call, outbound, resolved, now,
                   classifierVars, operationVars, boundary, deploy, shutdown,
                   walk>>

\* request() with its AbortController and timer kept in module variables:
\* the timeout callback aborts every fetch() that was given the signal
TimerFiresAt_SharedController(i) ==
    /\ calls[i].timer
    /\ calls' = [j \in Calls |->
                   IF calls[j].timer
                   THEN Settled("api", Failure(requestCatch(AbortError)))
                   ELSE calls[j]]
    /\ UNCHANGED <<configVars, server, call, outbound, resolved, now,
                   classifierVars, operationVars, boundary, deploy, shutdown,
                   walk>>

\* the timeout callback of call i runs, `() => controller.abort()` with the
\* controller of that call: its pending fetch() rejects with an AbortError.
\* The time of the callback is left open here
TimerFiresAt(i) ==
    /\ calls[i].timer
    /\ calls' = [calls EXCEPT ![i] =
                   Settled("api", Failure(requestCatch(AbortError)))]
    /\ UNCHANGED <<configVars, server, call, outbound, resolved, now,
                   classifierVars, operationVars, boundary, deploy, shutdown,
                   walk>>

----------------------------------------------------------------------------
(* deployToLive() of api.ts.  deploy holds its locals between two awaits:
   the changes, the position of the loop, the lists added / modified /
   deleted, and its outcome; requests is what the upstream was asked to do
   to LIVE, in order *)

\* changes of one deploy
MaxChanges == 3

\* change.status: 'added', 'modified', 'deleted', and a status that is none
\* of them
ChangeStatuses == {"added", "modified", "deleted", "renamed"}
Paths == {"p", "q"}
DocumentChanges == [status : ChangeStatuses, path : Paths]
ChangeLists ==
    UNION {[1..n -> DocumentChanges] : n \in 0..MaxChanges}

\* the errors request() throws to deployToLive in the model: a 422 answer
\* and a network failure
DeployErrors ==
    {requestCatch(requestHttpError(422, [kind |-> "text", text |-> TRUE,
                                         message |-> {}])),
     requestCatch(TypeError({"fetch failed"}))}

NoDeploy ==
    [pc |-> "none", changes |-> <<>>, index |-> 1, added |-> <<>>,
     modified |-> <<>>, deleted |-> <<>>, requests |-> <<>>,
     error |-> NoError, result |-> [returned |-> FALSE]]

\* deployToLive(changes): the locals before the first iteration
deployToLiveCalled(changes) ==
    [NoDeploy EXCEPT !.pc = IF changes = <<>> THEN "listing" ELSE "looping",
                     !.changes = changes]

\* the request of the current change, as the upstream sees it
DeployRequest(d, method, error) ==
    [method |-> method, path |-> d.changes[d.index].path, error |-> error]

\* the next iteration of `for (const change of changes)`, or the code
\* after the loop
nextChange(d) ==
    [d EXCEPT !.index = @ + 1,
              !.pc = IF d.index + 1 > Len(d.changes) THEN "listing"
                     ELSE "looping"]

\* await deleteDocument(...) resolved: deleted.push(change.path)
deleteSucceeded(d) ==
    nextChange([d EXCEPT
                  !.deleted = Append(@, d.changes[d.index].path),
                  !.requests = Append(@, DeployRequest(d, "DELETE", NoError))])

\* a delete whose failure is not caught
deleteFailed_Rethrows(d, error) ==
    [d EXCEPT !.pc = "threw", !.error = error,
              !.requests = Append(@, DeployRequest(d, "DELETE", error))]

\* await deleteDocument(...) rejected: catch (error) { logger.warn(...) }
deleteFailed(d, error) ==
    nextChange([d EXCEPT
                  !.requests = Append(@, DeployRequest(d, "DELETE", error))])

\* the push after createOrUpdateDocument, for 'added' and 'modified' only
pushApplied_KnownStatusOnly(d) ==
    IF d.changes[d.index].status = "added"
    THEN [d EXCEPT !.added = Append(@, d.changes[d.index].path)]
    ELSE IF d.changes[d.index].status = "modified"
    THEN [d EXCEPT !.modified = Append(@, d.changes[d.index].path)]
    ELSE d

\* if (change.status === 'added') added.push(...) else modified.push(...)
pushApplied(d) ==
    IF d.changes[d.index].status = "added"
    THEN [d EXCEPT !.added = Append(@, d.changes[d.index].path)]
    ELSE [d EXCEPT !.modified = Append(@, d.changes[d.index].path)]

\* await createOrUpdateDocument(...) resolved
createOrUpdateSucceeded(d) ==
    nextChange([pushApplied(d) EXCEPT
                  !.requests = Append(@, DeployRequest(d, "POST", NoError))])

\* a create-or-update whose failure is caught like that of a delete
createOrUpdateFailed_Swallowed(d, error) ==
    nextChange([d EXCEPT
                  !.requests = Append(@, DeployRequest(d, "POST", error))])

\* await createOrUpdateDocument(...) rejected: nothing catches the error
createOrUpdateFailed(d, error) ==
    [d EXCEPT !.pc = "threw", !.error = error,
              !.requests = Append(@, DeployRequest(d, "POST", error))]

\* the DeployResult returned
DeployResult(d) ==
    [returned |-> TRUE, documentsProcessed |-> Len(d.changes),
     added |-> d.added, modified |-> d.modified, deleted |-> d.deleted]

\* the current change has status 'deleted' and deleteDocument settles
DeleteSettles ==
    /\ deploy.pc = "looping"
    /\ deploy.changes[deploy.index].status = "deleted"
    /\ \/ deploy' = deleteSucceeded(deploy)
       \/ \E error \in DeployErrors : deploy' = deleteFailed(deploy, error)
    /\ UNCHANGED <<configVars, server, call, outbound, resolved, now,
                   classifierVars, operationVars, boundary, shutdown, calls,
                   walk>>

\* the current change has another status and createOrUpdateDocument
\* settles
CreateOrUpdateSettles ==
    /\ deploy.pc = "looping"
    /\ deploy.changes[deploy.index].status # "deleted"
    /\ \/ deploy' = createOrUpdateSucceeded(deploy)
       \/ \E error \in DeployErrors :
            deploy' = createOrUpdateFailed(deploy, error)
    /\ UNCHANGED <<configVars, server, call, outbound, resolved, now,
                   classifierVars, operationVars, boundary, shutdown, calls,
                   walk>>

\* await listDocuments('live') after the loop settles: return the result,
\* or the error propagates
ListDocumentsSettles ==
    /\ deploy.pc = "listing"
    /\ \/ deploy' = [deploy EXCEPT !.pc = "returned",
                                    !.result = DeployResult(deploy)]
       \/ \E error \in DeployErrors :
            deploy' = [deploy EXCEPT !.pc = "threw", !.error = error]
    /\ UNCHANGED <<configVars, server, call, outbound, resolved, now,
                   classifierVars, operationVars, boundary, shutdown, calls,
                   walk>>

----------------------------------------------------------------------------
(* Shutdown: setupGracefulShutdown() of server.ts.  shutdown.handlers holds
   one entry for each run of `shutdown(signal)` that is waiting at
   `await server.close()`; exitCode is the argument of process.exit(), or
   undefined while the process runs *)

\* signals delivered to one process
MaxSignals == 3

Signals == {"SIGINT", "SIGTERM"}

NoShutdown == [received |-> <<>>, handlers |-> <<>>, exitCode |-> UndefinedNum]

Running == shutdown.exitCode = UndefinedNum

\* shutdown(signal) up to its first await: with no server,
\* process.exit(0) at once; with a server, server.close() is called and
\* awaited
shutdownCalled(s, signal) ==
    IF server = "null"
    THEN [s EXCEPT !.received = Append(@, signal), !.exitCode = 0]
    ELSE [s EXCEPT !.received = Append(@, signal),
                   !.handlers = Append(@, [signal |-> signal,
                                           close |-> "pending"])]

\* shutdown(signal) without the try/catch around `await server.close()`:
\* a rejection ends the process as an unhandled rejection
shutdownResumed_NoCatch(s, h, outcome) ==
    [s EXCEPT !.handlers[h].close = outcome,
              !.exitCode = IF outcome = "rejected" THEN 1 ELSE 0]

\* shutdown(signal) after `await server.close()` settled: the catch block
\* logs a rejection; process.exit(0)
shutdownResumed(s, h, outcome) ==
    [s EXCEPT !.handlers[h].close = outcome, !.exitCode = 0]

\* process.on('SIGINT' | 'SIGTERM', () => shutdown(signal))
SignalReceived ==
    /\ Running
    /\ Len(shutdown.received) < MaxSignals
    /\ \E signal \in Signals : shutdown' = shutdownCalled(shutdown, signal)
    /\ UNCHANGED <<configVars, server, call, outbound, resolved, now,
                   classifierVars, operationVars, boundary, deploy, calls,
                   walk>>

\* the close() awaited by handler h settles and the handler resumes
CloseSettles ==
    /\ Running
    /\ \E h \in 1..Len(shutdown.handlers),
          outcome \in {"resolved", "rejected"} :
         /\ shutdown.handlers[h].close = "pending"
         /\ shutdown' = shutdownResumed(shutdown, h, outcome)
    /\ UNCHANGED <<configVars, server, call, outbound, resolved, now,
                   classifierVars, operationVars, boundary, deploy, calls,
                   walk>>

----------------------------------------------------------------------------
(* getDeepOriginalError() of error.util.ts step by step, over objects that
   may refer back to one another.  A chain is `size` Error objects, each
   the originalError of the one before; `tail` is the originalError of the
   last one: no such property, undefined, '', a string, an object that is
   no Error, or one of the Error objects of the chain again.  Position k
   is the k-th Error object, position 0 the value of the tail *)

\* Error objects of one chain
MaxChain == 12

TailKinds == {"none", "undefined", "empty", "string", "object"}
Chains ==
    [size : 0..MaxChain, tail : [kind : TailKinds \ {"none"}, to : {0}]]
      \cup [size : 1..MaxChain, tail : [kind : {"none"}, to : {0}]]
      \cup {c \in [size : 1..MaxChain,
                    tail : [kind : {"cycle"}, to : 1..MaxChain]] :
               c.tail.to <= c.size}

\* the argument of getDeepOriginalError: the first Error object, or the
\* value itself when there is none
inputOf(chain) == IF chain.size = 0 THEN 0 ELSE 1

\* `position instanceof Error`
isErrorAt(chain, position) == position >= 1

\* `'originalError' in current`
hasOriginalErrorAt(chain, position) ==
    position < chain.size \/ chain.tail.kind # "none"

\* current.originalError
originalErrorAt(chain, position) ==
    IF position < chain.size THEN position + 1
    ELSE IF chain.tail.kind = "cycle" THEN chain.tail.to
    ELSE 0

\* the value at the position is truthy
truthyAt(chain, position) ==
    position >= 1 \/ chain.tail.kind \in {"string", "object"}

\* the loop condition without the depth
loopContinues_NoMaxDepth(chain, current, depth) ==
    /\ isErrorAt(chain, current)
    /\ hasOriginalErrorAt(chain, current)
    /\ truthyAt(chain, originalErrorAt(chain, current))

\* depth < maxDepth && current instanceof Error &&
\* 'originalError' in current && current.originalError
loopContinues(chain, current, depth) ==
    /\ depth < maxDepth
    /\ isErrorAt(chain, current)
    /\ hasOriginalErrorAt(chain, current)
    /\ truthyAt(chain, originalErrorAt(chain, current))

NoWalk ==
    [pc |-> "none", chain |-> [size |-> 0, tail |-> [kind |-> "undefined",
                                                     to |-> 0]],
     current |-> 0, depth |-> 0, result |-> 0]

\* getDeepOriginalError(error): `if (!error) return error`, then
\* current = error, depth = 0
GetDeepOriginalError ==
    /\ walk.pc = "called"
    /\ walk' = IF ~truthyAt(walk.chain, inputOf(walk.chain))
               THEN [walk EXCEPT !.pc = "returned",
                                 !.result = inputOf(walk.chain)]
               ELSE [walk EXCEPT !.pc = "looping",
                                 !.current = inputOf(walk.chain),
                                 !.depth = 0]
    /\ UNCHANGED <<configVars, server, call, outbound, resolved, now,
                   classifierVars, operationVars, boundary, deploy, shutdown,
                   calls>>

\* one iteration: current = current.originalError; depth++
LoopStep ==
    /\ walk.pc = "looping"
    /\ loopContinues(walk.chain, walk.current, walk.depth)
    /\ walk' = [walk EXCEPT
                  !.current = originalErrorAt(walk.chain, walk.current),
                  !.depth = @ + 1]
    /\ UNCHANGED <<configVars, server, call, outbound, resolved, now,
                   classifierVars, operationVars, boundary, deploy, shutdown,
                   calls>>

\* the loop condition is false: return current
LoopExit ==
    /\ walk.pc = "looping"
    /\ ~loopContinues(walk.chain, walk.current, walk.depth)
    /\ walk' = [walk EXCEPT !.pc = "returned", !.result = walk.current]
    /\ UNCHANGED <<configVars, server, call, outbound, resolved, now,
                   classifierVars, operationVars, boundary, deploy, shutdown,
                   calls>>

\* the value at a position of a chain without a cycle, as the error values
\* of the other sections
RECURSIVE valueAt(_, _)
valueAt(chain, position) ==
    IF position = 0
    THEN IF chain.tail.kind = "empty" THEN EmptyString
         ELSE IF chain.tail.kind = "string" THEN StringValue({})
         ELSE IF chain.tail.kind = "object" THEN ObjectValue({})
         ELSE UndefinedValue
    ELSE IF hasOriginalErrorAt(chain, position)
    THEN withOriginalError(PlainError({}),
                           valueAt(chain, originalErrorAt(chain, position)))
    ELSE PlainError({})

----------------------------------------------------------------------------
(* The process *)

\* process.env, the .env file and the global configuration file at start
ProcessEnvs ==
    {e \in [Keys -> {Undefined, "", "env"}] : e[PROJECT_ID] # ""}
EnvFileVars ==
    {m \in [Keys -> {Undefined, "dotenv"}] :
        \A k \in Keys \ FileKeys : m[k] = Undefined}
EnvFiles ==
    {[exists |-> FALSE, vars |-> EmptyMap]}
      \cup [exists : {TRUE}, vars : EnvFileVars]
GlobalVars(value) ==
    {m \in [Keys -> {Undefined, value}] :
        \A k \in Keys \ FileKeys : m[k] = Undefined}
GlobalVarsPackage ==
    {[environments |-> TRUE,
      vars |-> [k \in Keys |-> IF k \in FileKeys THEN "global-package"
                               ELSE Undefined]]}
Section(environments) == [environments |-> TRUE, vars |-> environments]
GlobalConfigs ==
    {[exists |-> FALSE, parses |-> FALSE,
      sections |-> [s \in SectionKeys |-> NoSection]],
     [exists |-> TRUE, parses |-> FALSE,
      sections |-> [s \in SectionKeys |-> NoSection]]}
      \cup {[exists |-> TRUE, parses |-> TRUE,
             sections |-> [s \in SectionKeys |->
                             IF s = "latitude" THEN short ELSE long]] :
              short \in {Section(m) : m \in GlobalVars("global")},
              long \in {NoSection}}
      \cup {[exists |-> TRUE, parses |-> TRUE,
             sections |-> [s \in SectionKeys |->
                             IF s = "latitude" THEN NoSection ELSE long]] :
              long \in {NoSection} \cup GlobalVarsPackage}

\* createServer(): config.load(), new McpServer, registerTools
createServer ==
    /\ server = "null"
    /\ loadCalls < MaxLoadCalls
    /\ load
    /\ loadCalls' = loadCalls + 1
    /\ server' = "created"
    /\ UNCHANGED <<launchEnv, envFile, globalConfig, call, outbound, resolved, now,
                   classifierVars, operationVars, moduleVars>>

\* config.load(), called by any other entry point of the process
Load ==
    /\ loadCalls < MaxLoadCalls
    /\ load
    /\ loadCalls' = loadCalls + 1
    /\ UNCHANGED <<launchEnv, envFile, globalConfig, server, call, outbound, resolved,
                   now, classifierVars, operationVars, moduleVars>>

Init ==
    /\ launchEnv \in ProcessEnvs
    /\ processEnv = launchEnv
    /\ envFile \in EnvFiles
    /\ globalConfig \in GlobalConfigs
    /\ configLoaded = FALSE
    /\ reads = [global |-> 0, dotenv |-> 0]
    /\ loadCalls = 0
    /\ server = "null"
    /\ call = Idle
    /\ outbound = 0
    /\ resolved = {}
    /\ now = 0
    /\ thrown = NoError
    /\ detected = NoDetection
    /\ attempts = 0
    /\ response = NoResponse
    /\ stream = NoStream
    /\ received = NoResult
    /\ boundary = NoBoundary
    /\ deploy = NoDeploy
    /\ shutdown = NoShutdown
    /\ calls = NoCalls
    /\ walk = NoWalk

Next ==
    \/ createServer
    \/ Load
    \/ \E t \in TimeoutOptions : request(t)
    \/ fetchLatitudeApi
    \/ fetchLatitudeStream
    \/ ResponseArrives
    \/ TextArrives
    \/ JsonArrives
    \/ ConnectionFails

Spec == Init /\ [][Next]_vars

\* the clients with the clock: a process that has started with its
\* credentials in the environment
InitRequest ==
    /\ launchEnv = [k \in Keys |-> IF k = BASE_URL THEN Undefined ELSE "env"]
    /\ processEnv = launchEnv
    /\ envFile = [exists |-> FALSE, vars |-> EmptyMap]
    /\ globalConfig = [exists |-> FALSE, parses |-> FALSE,
                       sections |-> [s \in SectionKeys |-> NoSection]]
    /\ configLoaded = TRUE
    /\ reads = [global |-> 1, dotenv |-> 1]
    /\ loadCalls = 1
    /\ server = "created"
    /\ call = Idle
    /\ outbound = 0
    /\ resolved = {}
    /\ now = 0
    /\ thrown = NoError
    /\ detected = NoDetection
    /\ attempts = 0
    /\ response = NoResponse
    /\ stream = NoStream
    /\ received = NoResult
    /\ boundary = NoBoundary
    /\ deploy = NoDeploy
    /\ shutdown = NoShutdown
    /\ calls = NoCalls
    /\ walk = NoWalk

NextRequest ==
    \/ \E t \in TimeoutOptions : request(t)
    \/ fetchLatitudeApi
    \/ fetchLatitudeStream
    \/ ResponseArrives
    \/ TextArrives
    \/ JsonArrives
    \/ ConnectionFails
    \/ TimerFires
    \/ Tick

SpecRequest == InitRequest /\ [][NextRequest]_vars

\* concurrent calls in a process that starts with or without its key in
\* the environment and in the .env file
InitConcurrent ==
    /\ launchEnv \in {e \in ProcessEnvs :
                         e[BASE_URL] = Undefined /\ e[PROJECT_ID] = "env"}
    /\ processEnv = launchEnv
    /\ envFile \in {f \in EnvFiles : f.vars[BASE_URL] = Undefined}
    /\ globalConfig = [exists |-> FALSE, parses |-> FALSE,
                       sections |-> [s \in SectionKeys |-> NoSection]]
    /\ configLoaded = FALSE
    /\ reads = [global |-> 0, dotenv |-> 0]
    /\ loadCalls = 0
    /\ server = "null"
    /\ call = Idle
    /\ outbound = 0
    /\ resolved = {}
    /\ now = 0
    /\ thrown = NoError
    /\ detected = NoDetection
    /\ attempts = 0
    /\ response = NoResponse
    /\ stream = NoStream
    /\ received = NoResult
    /\ boundary = NoBoundary
    /\ deploy = NoDeploy
    /\ shutdown = NoShutdown
    /\ calls = NoCalls
    /\ walk = NoWalk

NextConcurrent ==
    \/ createServer
    \/ Load
    \/ \E i \in Calls, t \in TimeoutOptions : requestAt(i, t)
    \/ \E i \in Calls, client \in {"service", "stream"} :
          fetchLatitudeAt(i, client)
    \/ \E i \in Calls : ResponseArrivesAt(i)
    \/ \E i \in Calls : TextArrivesAt(i)
    \/ \E i \in Calls : JsonArrivesAt(i)
    \/ \E i \in Calls : ConnectionFailsAt(i)
    \/ \E i \in Calls : TimerFiresAt(i)

SpecConcurrent == InitConcurrent /\ [][NextConcurrent]_vars

\* deployToLive called with every list of changes of the model
InitDeploy ==
    /\ launchEnv = [k \in Keys |-> IF k = BASE_URL THEN Undefined ELSE "env"]
    /\ processEnv = launchEnv
    /\ envFile = [exists |-> FALSE, vars |-> EmptyMap]
    /\ globalConfig = [exists |-> FALSE, parses |-> FALSE,
                       sections |-> [s \in SectionKeys |-> NoSection]]
    /\ configLoaded = TRUE
    /\ reads = [global |-> 1, dotenv |-> 1]
    /\ loadCalls = 1
    /\ server = "created"
    /\ call = Idle
    /\ outbound = 0
    /\ resolved = {}
    /\ now = 0
    /\ thrown = NoError
    /\ detected = NoDetection
    /\ attempts = 0
    /\ response = NoResponse
    /\ stream = NoStream
    /\ received = NoResult
    /\ boundary = NoBoundary
    /\ deploy \in {deployToLiveCalled(changes) : changes \in ChangeLists}
    /\ shutdown = NoShutdown
    /\ calls = NoCalls
    /\ walk = NoWalk

NextDeploy ==
    \/ DeleteSettles
    \/ CreateOrUpdateSettles
    \/ ListDocumentsSettles

SpecDeploy == InitDeploy /\ [][NextDeploy]_vars

\* startServer(): createServer() assigns the module variable `server`
startServer ==
    /\ Running
    /\ createServer

\* signals delivered to a process before and after startServer()
NextShutdown ==
    \/ startServer
    \/ SignalReceived
    \/ CloseSettles

SpecShutdown == InitConcurrent /\ [][NextShutdown]_vars

\* close() is a promise of the MCP SDK that settles, and a settled promise
\* resumes the handler that awaits it
SpecShutdownFair == SpecShutdown /\ WF_vars(CloseSettles)

\* getDeepOriginalError called with every chain of the model
InitWalk ==
    /\ launchEnv = [k \in Keys |-> Undefined]
    /\ processEnv = launchEnv
    /\ envFile = [exists |-> FALSE, vars |-> EmptyMap]
    /\ globalConfig = [exists |-> FALSE, parses |-> FALSE,
                       sections |-> [s \in SectionKeys |-> NoSection]]
    /\ configLoaded = FALSE
    /\ reads = [global |-> 0, dotenv |-> 0]
    /\ loadCalls = 0
    /\ server = "null"
    /\ call = Idle
    /\ outbound = 0
    /\ resolved = {}
    /\ now = 0
    /\ thrown = NoError
    /\ detected = NoDetection
    /\ attempts = 0
    /\ response = NoResponse
    /\ stream = NoStream
    /\ received = NoResult
    /\ boundary = NoBoundary
    /\ deploy = NoDeploy
    /\ shutdown = NoShutdown
    /\ calls = NoCalls
    /\ walk \in {[NoWalk EXCEPT !.pc = "called", !.chain = chain] :
                    chain \in Chains}

NextWalk ==
    \/ GetDeepOriginalError
    \/ LoopStep
    \/ LoopExit

SpecWalk == InitWalk /\ [][NextWalk]_vars

\* the function runs to its return without an await
SpecWalkFair == SpecWalk /\ WF_vars(NextWalk)

\* the classifier applied to every thrown value of the model
InitClassifier ==
    /\ launchEnv = [k \in Keys |-> Undefined]
    /\ processEnv = launchEnv
    /\ envFile = [exists |-> FALSE, vars |-> EmptyMap]
    /\ globalConfig = [exists |-> FALSE, parses |-> FALSE,
                       sections |-> [s \in SectionKeys |-> NoSection]]
    /\ configLoaded = FALSE
    /\ reads = [global |-> 0, dotenv |-> 0]
    /\ loadCalls = 0
    /\ server = "null"
    /\ call = Idle
    /\ outbound = 0
    /\ resolved = {}
    /\ now = 0
    /\ thrown \in ThrownValues
    /\ detected = NoDetection
    /\ attempts = 0
    /\ response = NoResponse
    /\ stream = NoStream
    /\ received = NoResult
    /\ boundary = NoBoundary
    /\ deploy = NoDeploy
    /\ shutdown = NoShutdown
    /\ calls = NoCalls
    /\ walk = NoWalk

NextClassifier == DetectErrorType

SpecClassifier == InitClassifier /\ [][NextClassifier]_vars

\* the controller over the service: the configuration is loaded and holds
\* an API key; operations go through fetchLatitudeApi or fetchLatitudeStream
NextController ==
    \/ fetchLatitudeApi
    \/ fetchLatitudeStream
    \/ ResponseArrives
    \/ TextArrives
    \/ JsonArrives
    \/ ConnectionFails
    \/ listProjects
    \/ runPrompt
    \/ runPromptEnds
    \/ generatorNext
    \/ generatorReturn
    \/ abandon
    \/ ReadValue
    \/ ReadDone
    \/ ReadFails

SpecController == InitRequest /\ [][NextController]_vars

\* the outer boundary over the errors that reach it
InitBoundary ==
    /\ launchEnv = [k \in Keys |-> Undefined]
    /\ processEnv = launchEnv
    /\ envFile = [exists |-> FALSE, vars |-> EmptyMap]
    /\ globalConfig = [exists |-> FALSE, parses |-> FALSE,
                       sections |-> [s \in SectionKeys |-> NoSection]]
    /\ configLoaded = FALSE
    /\ reads = [global |-> 0, dotenv |-> 0]
    /\ loadCalls = 0
    /\ server = "null"
    /\ call = Idle
    /\ outbound = 0
    /\ resolved = {}
    /\ now = 0
    /\ thrown = NoError
    /\ detected = NoDetection
    /\ attempts = 0
    /\ response = NoResponse
    /\ stream = NoStream
    /\ received = NoResult
    /\ boundary \in {[NoBoundary EXCEPT !.error = e] : e \in BoundaryErrors}
    /\ deploy = NoDeploy
    /\ shutdown = NoShutdown
    /\ calls = NoCalls
    /\ walk = NoWalk

NextBoundary ==
    \/ FormatErrorForMcpTool
    \/ HandleCliError
    \/ CreateUserFriendlyErrorMessage

SpecBoundary == InitBoundary /\ [][NextBoundary]_vars

----------------------------------------------------------------------------
(* Properties *)

Pending == {"fetching", "readingText", "readingJson"}

\* C1: a call of api.ts request() is never pending after its timeout has
\* elapsed, wherever the upstream stalls (SpecRequest)
C1_RequestSettlesAtTimeout ==
    (call.client = "api" /\ call.pc \in Pending)
        => now - call.start <= call.timeout

\* C2: with LATITUDE_API_KEY absent or empty after configuration loading no
\* fetch is ever invoked, and every call of an entry point has failed
C2_NoRequestWithoutApiKey ==
    (configLoaded /\ ~Truthy(processEnv[API_KEY]))
        => /\ outbound = 0
           /\ call.pc \notin Pending
           /\ call.pc = "settled" => call.result.kind = "error"

\* an entry point was called without a key and failed before fetch
C2_Witness ==
    /\ configLoaded
    /\ ~Truthy(processEnv[API_KEY])
    /\ call.pc = "settled"
    /\ call.client = "service"
    /\ call.result.kind = "error"
    /\ outbound = 0

\* C3: with the API key absent or empty, the error of credential resolution
\* the caller observes has the kind AUTH_MISSING
C3_MissingKeyIsAuthMissing ==
    (~Truthy(processEnv[API_KEY]) /\ call.pc = "settled"
        /\ call.result.kind = "error")
        => ensureMcpError(call.result.error).type = AUTH_MISSING

\* the value of key k in the global file: that of the section used
globalValue(k) ==
    IF ~globalConfig.exists \/ ~globalConfig.parses
           \/ foundConfigSection(globalConfig) = 0
    THEN Undefined
    ELSE globalConfig.sections[
             potentialKeys[foundConfigSection(globalConfig)]].vars[k]

\* the value of key k in the highest-precedence source defining it:
\* process environment > .env file > global configuration file
highestPrecedence(k) ==
    IF launchEnv[k] # Undefined THEN launchEnv[k]
    ELSE IF envFile.exists /\ envFile.vars[k] # Undefined THEN envFile.vars[k]
    ELSE globalValue(k)

\* C4: after config.load(), config.get(key) is the value of the
\* highest-precedence source that defines the key, in the order process
\* environment > .env file > global configuration file
C4_PrecedenceEnvDotenvGlobal ==
    configLoaded =>
        \A k \in Keys :
            get(k) = IF Truthy(highestPrecedence(k))
                     THEN highestPrecedence(k) ELSE Undefined

\* C5: the configuration sources are read at most once; a call of
\* config.load() after the first reads no source and leaves process.env
\* unchanged
C5_SourcesReadOnce ==
    /\ [](reads.global <= 1 /\ reads.dotenv <= 1)
    /\ [][loadCalls >= 1 => (processEnv' = processEnv /\ reads' = reads)]_vars

\* config.load() has been called again after the first call
C5_Witness ==
    /\ loadCalls >= 2
    /\ reads.global = 1
    /\ reads.dotenv = 1
    /\ processEnv # launchEnv

\* C6: any two credential resolutions of one process (getLatitudeCredentials,
\* getConfig) return the same apiKey and baseUrl
C6_CredentialsImmutable ==
    \A a, b \in resolved : a.credentials = b.credentials

\* both resolvers have returned and config.load() was called again
C6_Witness ==
    /\ \E a, b \in resolved :
          a.by = "getConfig" /\ b.by = "getLatitudeCredentials"
    /\ loadCalls >= 2
    /\ processEnv # launchEnv

\* an Error with a numeric statusCode member
carriesStatus(error) ==
    error.isError /\ error.hasStatus /\ error.statusCode # UndefinedNum

\* C7: an error with a status code whose message matches no pattern is
\* classified by the status: 401/403 ACCESS_DENIED, 404 NOT_FOUND,
\* 429 RATE_LIMIT_ERROR, 400/422 VALIDATION_ERROR, with the status returned
C7_StatusMapping ==
    (detected # NoDetection /\ carriesStatus(thrown) /\ thrown.message = {})
        => /\ thrown.statusCode \in {401, 403}
                => detected = Detection(ACCESS_DENIED, thrown.statusCode)
           /\ thrown.statusCode = 404 => detected = Detection(NOT_FOUND, 404)
           /\ thrown.statusCode = 429
                => detected = Detection(RATE_LIMIT_ERROR, 429)
           /\ thrown.statusCode \in {400, 422}
                => detected = Detection(VALIDATION_ERROR, thrown.statusCode)

\* a 401 without a matching message has been classified
C7_Witness ==
    /\ detected.code = ACCESS_DENIED
    /\ carriesStatus(thrown)
    /\ thrown.statusCode = 401
    /\ thrown.message = {}

\* C8: an error with status 502, 503 or 504 gets a kind other than the one
\* given to the unlisted status 500
C8_ServerErrorIsDistinctKind ==
    (detected # NoDetection /\ carriesStatus(thrown) /\ thrown.message = {}
        /\ thrown.statusCode \in {502, 503, 504})
        => detected.code #
             detectErrorType([thrown EXCEPT !.statusCode = 500]).code

\* the statuses the classification lists (502-504 are listed by the
\* specification of the classifier)
ListedStatuses == {400, 401, 403, 404, 422, 429, 502, 503, 504}

C10_StatusTakesPrecedence ==
    (detected # NoDetection /\ carriesStatus(thrown)
        /\ thrown.statusCode \in {400, 401, 403, 404, 422, 429})
        => detected.code = detectErrorType([thrown EXCEPT !.message = {}]).code

----------------------------------------------------------------------------
(* Retry *)

\* the retry policy the audit of the repository asks for (fetchWithRetry)
RETRY_STATUS_CODES == {429, 502, 503, 504}
MAX_RETRIES == 3

\* the statuses of the kind ServerError
ServerErrorStatuses == {502, 503, 504}

\* the operation in flight has failed
OperationFailed ==
    /\ call.pc = "settled"
    /\ call.client \in {"api", "service"}
    /\ call.result.kind = "error"

\* C11: an operation whose upstream answers ServerError (502, 503, 504) is
\* attempted again after each such answer as long as fewer than maxAttempts
\* attempts were made: it fails on a ServerError answer only when
\* maxAttempts attempts were made
C11_ServerErrorRetried ==
    (OperationFailed /\ response.status \in ServerErrorStatuses)
        => attempts = MAX_RETRIES

\* the errors the service classifies from an attempt whose answer had the
\* given status: from the answer itself, or from the loss of the connection
\* while its body is read
classifiedFromAttempt(status) ==
    {fetchLatitudeApiHttpError(status, body) : body \in ErrorTexts}
      \cup {createApiError({}, UndefinedNum)}

\* the operation in flight failed on an answer of a retryable status
RetryableFailure ==
    /\ call.pc = "settled"
    /\ call.client = "service"
    /\ call.result.kind = "error"
    /\ response.status \in RETRY_STATUS_CODES

\* C12: an operation makes at most maxAttempts attempts; when its attempts
\* failed with a retryable error it fails with the error classified from
\* the last attempt, not wrapped in another, and a fetch made after that
\* is the first attempt of another operation
C12_AttemptsBounded ==
    /\ [](attempts <= MAX_RETRIES)
    /\ [](RetryableFailure
            => call.result.error \in classifiedFromAttempt(response.status))
    /\ [][RetryableFailure => (outbound' = outbound \/ attempts' = 1)]_vars

C12_Witness ==
    /\ RetryableFailure
    /\ response.status = 503
    /\ call.result.error = createApiError({}, 503)
    /\ attempts = 1

\* the operation in flight failed with an error of a kind that is not
\* retried: missing or rejected credentials, NotFound, ValidationError,
\* UnexpectedError
NonRetryableFailure ==
    /\ OperationFailed
    /\ LET error == call.result.error
       IN \/ error.class = "Error"
          \/ error.class = "McpError"
               /\ error.type \in {AUTH_MISSING, AUTH_INVALID, UNEXPECTED_ERROR}
          \/ error.class \in {"McpError", "LatitudeApiError"}
               /\ error.statusCode \in {401, 403, 404, 422}

\* C13 as stated: a failure of a kind that is not retried comes with
\* exactly one outbound request of its operation
C13_ExactlyOneRequest == NonRetryableFailure => attempts = 1

\* C13: a failure of a kind that is not retried fails the operation at its
\* first occurrence: exactly one outbound request was made when the
\* failure is raised for an answer of the upstream, none when the
\* credentials could not be resolved, and none follows
C13_NonRetryableFailsAtOnce ==
    NonRetryableFailure => attempts = (IF response = NoResponse THEN 0 ELSE 1)

C13_Witness ==
    /\ NonRetryableFailure
    /\ call.client = "service"
    /\ response.status = 404
    /\ attempts = 1

----------------------------------------------------------------------------
(* Error propagation *)

\* the controller operation in flight failed in its service call and has
\* thrown to its caller
ControllerFailed ==
    /\ call.pc = "settled"
    /\ call.client \in {"service", "stream"}
    /\ call.result.kind = "error"
    /\ received # NoResult

\* the kind the outer boundary sees: the type of ensureMcpError(error), which
\* formatErrorForMcpTool reports and handleCliError branches on
boundaryKind == ensureMcpError(received.error).type

\* C14: the error the outer boundary receives has the kind of the error the
\* request layer raised (AUTH_INVALID, API_ERROR or UNEXPECTED_ERROR)
C14_KindSurfacedUnchanged ==
    ControllerFailed
        => (received.kind = "error" /\ boundaryKind = call.result.error.type)

\* C15: a controller operation whose service call failed returns no
\* success: it throws an McpError whose originalError is the error the
\* service raised and whose statusCode is the status of that error when it
\* has one, the status the classifier detects otherwise
C15_FailureNotSwallowed ==
    ControllerFailed
        => /\ received.kind = "error"
           /\ received.error.class = "McpError"
           /\ received.error.type \in ErrorType
           /\ received.error.originalError = call.result.error
           /\ received.error.statusCode =
                IF call.result.error.statusCode # UndefinedNum
                THEN call.result.error.statusCode
                ELSE detectErrorType(call.result.error).statusCode

C15_Witness ==
    /\ ControllerFailed
    /\ call.result.error.statusCode = 422
    /\ includes(call.result.error.message, "not found")
    /\ received.error.statusCode = 422
    /\ received.error.originalError = call.result.error

----------------------------------------------------------------------------
(* Streams *)

\* the stream has been left: its generator completed (the reader reported
\* done, a read failed, or the consumer closed it), or the consumer dropped
\* it
StreamLeft == stream.state = "completed" \/ stream.consumer = "gone"

\* C16: the reader of a stream is released exactly once on every exit
\* path: never twice, and once when the stream has been left, whether by
\* completion, by a read error or by a consumer that stops early
C16_ReaderReleasedOnce ==
    /\ stream.releases <= 1
    /\ StreamLeft => stream.releases = 1

\* the UTF-8 decoding of a whole byte sequence: an incomplete sequence at
\* its end decodes to U+FFFD
utf8(bytes) ==
    LET whole == decode(<<>>, bytes)
    IN whole.text \o (IF whole.pending = <<>> THEN <<>> ELSE <<"?">>)

\* C17: when the reader has reported done, the concatenation of the chunks
\* the stream yielded is the UTF-8 decoding of the concatenation of the
\* bytes read, one chunk per read, in read order: no byte is dropped
C17_ChunksDecodeAllBytes ==
    stream.outcome = "done"
        => /\ Len(stream.chunks) = Len(stream.values)
           /\ join(stream.chunks) = utf8(join(stream.values))

\* C18: a stream ends normally only when its reader reported done and ends
\* with the error when a read failed; runPrompt and chat with stream = true
\* then throw, and return content only for a stream that ended normally:
\* all of its chunks, never a part of them as a success
C18_StreamFailurePropagates ==
    /\ stream.outcome = "done" => stream.reader = "done"
    /\ stream.reader = "errored"
         => (stream.state = "completed" /\ stream.outcome = "threw")
    /\ (stream.consumer = "forAwait" /\ received # NoResult)
         => IF stream.reader = "errored"
            THEN /\ received.kind = "error"
                 /\ received.error.originalError = stream.error
            ELSE /\ stream.reader = "done"
                 /\ received = Content(join(stream.chunks))

C18_Witness ==
    /\ stream.consumer = "forAwait"
    /\ stream.reader = "errored"
    /\ Len(stream.chunks) >= 1
    /\ received.kind = "error"

----------------------------------------------------------------------------
(* Responses *)

\* the operation in flight received a success response with an empty body
EmptyBodySuccess ==
    /\ call.client \in {"api", "service"}
    /\ response # NoResponse
    /\ response_ok(response.status)
    /\ response.contentLengthZero \/ response.status = 204

\* C19: on a success response with Content-Length "0" or status 204 both
\* clients return an empty object at once: the body is never read or
\* parsed and no error is raised
C19_EmptyBodyIsEmptyObject ==
    EmptyBodySuccess => (call.pc = "settled" /\ call.result = EmptyObject)

C19_Witness ==
    /\ EmptyBodySuccess
    /\ call.client = "service"
    /\ response.status = 204
    /\ ~response.contentLengthZero
    /\ call.result = EmptyObject

\* the error request() raised for the non-success response it received
HttpErrorRaised ==
    /\ call.client = "api"
    /\ call.pc = "settled"
    /\ call.result.kind = "error"
    /\ response # NoResponse
    /\ ~response_ok(response.status)

\* the errors described for a non-success response of the given
\* status: name, errorCode and message of a structured payload, or the
\* synthetic payload; and the error of a connection lost while the body
\* is read
describedHttpErrors(status) ==
    {LatitudeApiError("PayloadName", "PayloadCode", m, status) :
        m \in PayloadMessages}
      \cup {LatitudeApiError("HTTPError", "HTTP_" \o ToString(status), m, status) :
               m \in PayloadMessages}
      \cup {LatitudeApiError("NetworkError", "NETWORK_ERROR", {}, 0)}

\* C20: the error request() raises for a non-success response has a
\* defined name and error code, and a message: those of the body when it
\* is a structured error payload, those of the synthetic payload (name
\* HTTPError, errorCode HTTP_<status>) otherwise
C20_HttpErrorIsDescribed ==
    HttpErrorRaised
        => /\ call.result.error.name # Undefined
           /\ call.result.error.errorCode # Undefined
           /\ call.result.error \in describedHttpErrors(response.status)

\* the errors of a connection lost while the body of the response is read
connectionLostErrors ==
    {requestCatch(TypeError({})), fetchLatitudeApiCatch(TypeError({})),
     TypeError({})}

\* a client raised an error for the non-success response it received
NonSuccessErrorRaised ==
    /\ call.pc = "settled"
    /\ call.result.kind = "error"
    /\ response # NoResponse
    /\ ~response_ok(response.status)
    /\ call.result.error \notin connectionLostErrors

\* C29: in request(), fetchLatitudeApi() and fetchLatitudeStream() the
\* error raised for a non-success response has the HTTP status of that
\* response as statusCode, 401 and 403 included
C29_ErrorCarriesHttpStatus ==
    NonSuccessErrorRaised
        => call.result.error.statusCode = response.status

----------------------------------------------------------------------------
(* The outer boundary: results and printed output *)

C22_OriginalMessageAppended ==
    boundary.by = "message"
        => IF boundary.code \in {NOT_FOUND, ACCESS_DENIED}
           THEN \A e \in BoundaryErrors :
                    createUserFriendlyErrorMessage(boundary.code, e.message)
                        = boundary.result
           ELSE boundary.error.message \subseteq boundary.result

C22_Witness ==
    /\ boundary.by = "message"
    /\ boundary.code = ACCESS_DENIED
    /\ UpstreamDetail \in boundary.error.message
    /\ UpstreamDetail \notin boundary.result

\* the error at the boundary was thrown by handleControllerError for an
\* error it classified as NOT_FOUND or ACCESS_DENIED
ClassifiedAsHidden ==
    /\ boundary.error.class = "McpError"
    /\ "originalError" \in DOMAIN boundary.error
    /\ boundary.error
         = handleControllerError(boundary.error.originalError)
    /\ detectErrorType(boundary.error.originalError).code
         \in {NOT_FOUND, ACCESS_DENIED}

\* C23: for an error that handleControllerError classified as NOT_FOUND or
\* ACCESS_DENIED, the text of the upstream response is neither in the text
\* or the metadata of the tool result nor in what the CLI prints
C23_UpstreamMessageNotShown ==
    ClassifiedAsHidden
        => /\ boundary.by = "tool"
                => /\ UpstreamDetail \notin boundary.result.content[1].text
                   /\ UpstreamDetail
                        \notin boundary.result.metadata.errorDetails.message
           /\ boundary.by = "cli"
                => UpstreamDetail \notin boundary.result.printed

----------------------------------------------------------------------------
(* Concurrent operations *)

\* C24: under every interleaving of the calls in flight, process.env is
\* written by config.load() only, and a step of one call changes the
\* locals (timer, position, status, result) of that call alone, so no
\* call's result depends on the calls around it
C24_CallsAreIndependent ==
    [][/\ processEnv' # processEnv => ~configLoaded /\ configLoaded'
       /\ \A i \in Calls, j \in Calls :
            i # j /\ calls'[i] # calls[i] => calls'[j] = calls[j]]_vars

C24_Witness ==
    /\ calls["first"].pc = "settled"
    /\ calls["first"].result.kind = "error"
    /\ calls["first"].result.error.errorCode = "TIMEOUT"
    /\ calls["second"].pc = "fetching"
    /\ calls["second"].timer

----------------------------------------------------------------------------
(* deployToLive *)

\* the changes requested so far whose request succeeded, in input order
RECURSIVE appliedPaths(_, _, _)
appliedPaths(d, statuses, k) ==
    IF k = 0 THEN <<>>
    ELSE IF /\ d.changes[k].status \in statuses
            /\ d.requests[k].error = NoError
    THEN Append(appliedPaths(d, statuses, k - 1), d.changes[k].path)
    ELSE appliedPaths(d, statuses, k - 1)

\* the requests made are those of the first changes, in input order
requestedInOrder(d) ==
    /\ Len(d.requests) <= Len(d.changes)
    /\ \A k \in 1..Len(d.requests) :
         /\ d.requests[k].path = d.changes[k].path
         /\ d.requests[k].method
              = IF d.changes[k].status = "deleted" THEN "DELETE" ELSE "POST"

failedDeletes(d) ==
    {k \in 1..Len(d.requests) :
        d.requests[k].method = "DELETE" /\ d.requests[k].error # NoError}

failedCreates(d) ==
    {k \in 1..Len(d.requests) :
        d.requests[k].method = "POST" /\ d.requests[k].error # NoError}

\* C25: a failed delete does not end the deploy: its error is not the
\* outcome of deployToLive, its path is not pushed to `deleted`, and the
\* loop goes on with the next change, in input order
C25_FailedDeleteIsSkipped ==
    \A k \in failedDeletes(deploy) :
        /\ deploy.index > k
        /\ deploy.pc = "threw"
              => \/ Len(deploy.requests) > k
                 \/ deploy.index > Len(deploy.changes)
        /\ deploy.pc = "looping" => Len(deploy.requests) = deploy.index - 1
        /\ deploy.pc \in {"listing", "returned"}
              => Len(deploy.requests) = Len(deploy.changes)
        /\ deploy.deleted
              = appliedPaths(deploy, {"deleted"}, Len(deploy.requests))
        /\ requestedInOrder(deploy)

C25_Witness ==
    /\ deploy.pc = "returned"
    /\ 1 \in failedDeletes(deploy)
    /\ Len(deploy.changes) = 3
    /\ deploy.changes[3].status = "deleted"
    /\ deploy.changes[3].path = deploy.changes[1].path
    /\ deploy.result.deleted = <<deploy.changes[1].path>>

\* C26: a failed create-or-update ends the deploy at that change: its
\* error is the outcome of deployToLive, no later change is requested, no
\* result is returned, and no request undoes the changes made before
C26_FailedCreateAborts ==
    \A k \in failedCreates(deploy) :
        /\ deploy.pc = "threw"
        /\ deploy.error = deploy.requests[k].error
        /\ Len(deploy.requests) = k
        /\ deploy.index = k
        /\ deploy.result = NoDeploy.result
        /\ requestedInOrder(deploy)

C26_Witness ==
    /\ deploy.pc = "threw"
    /\ 2 \in failedCreates(deploy)
    /\ Len(deploy.changes) = 3
    /\ deploy.requests[1].method = "POST"
    /\ deploy.added = <<deploy.changes[1].path>>

\* C27: a returned result lists in added, modified and deleted, in input
\* order, the paths of the changes of that status that were applied, a
\* status other than 'added' and 'deleted' counting as modified;
\* documentsProcessed is the number of changes, and the three lists
\* together are as long as that exactly when no delete failed
C27_ResultAccountsForChanges ==
    deploy.pc = "returned"
        => LET n == Len(deploy.changes)
               r == deploy.result
           IN /\ r.returned
              /\ Len(deploy.requests) = n
              /\ r.added = appliedPaths(deploy, {"added"}, n)
              /\ r.modified
                   = appliedPaths(deploy, ChangeStatuses \ {"added", "deleted"},
                                  n)
              /\ r.deleted = appliedPaths(deploy, {"deleted"}, n)
              /\ r.documentsProcessed = n
              /\ Len(r.added) + Len(r.modified) + Len(r.deleted) <= n
              /\ Len(r.added) + Len(r.modified) + Len(r.deleted) = n
                   <=> failedDeletes(deploy) = {}

C27_Witness ==
    /\ deploy.pc = "returned"
    /\ Len(deploy.changes) = 3
    /\ deploy.changes[1].status = "renamed"
    /\ deploy.changes[2].status = "deleted"
    /\ deploy.changes[3].status = "added"
    /\ failedDeletes(deploy) = {2}
    /\ deploy.result.documentsProcessed = 3
    /\ Len(deploy.result.modified) = 1

----------------------------------------------------------------------------
(* Shutdown *)

----------------------------------------------------------------------------
(* getDeepOriginalError *)

\* the originalError links from the argument to the end of a chain without
\* a cycle
links(chain) ==
    IF chain.size = 0 THEN 0
    ELSE (chain.size - 1)
           + (IF chain.tail.kind \in {"string", "object"} THEN 1 ELSE 0)

\* the first value from the argument on that is not an Error with a truthy
\* originalError
lastElement(chain) ==
    IF chain.tail.kind \in {"string", "object"} THEN 0 ELSE chain.size

\* C30: getDeepOriginalError returns for every argument, after at most
\* maxDepth originalError links also when the chain refers back to itself
\* or is longer; for a chain of at most maxDepth links the result is its
\* last element, for a falsy argument the argument
C30_DeepOriginalErrorIsBounded ==
    /\ <>(walk.pc = "returned")
    /\ [](walk.depth <= maxDepth)
    /\ [](walk.pc = "returned"
            => /\ ~truthyAt(walk.chain, inputOf(walk.chain))
                    => walk.result = inputOf(walk.chain) /\ walk.depth = 0
               /\ walk.chain.tail.kind # "cycle"
                    /\ links(walk.chain) <= maxDepth
                    => /\ walk.result = lastElement(walk.chain)
                       /\ walk.depth = links(walk.chain)
               /\ walk.chain.tail.kind # "cycle"
                    => valueAt(walk.chain, walk.result)
                         = getDeepOriginalError(
                               valueAt(walk.chain, inputOf(walk.chain))))

C30_Witness ==
    /\ walk.pc = "returned"
    /\ walk.chain.tail.kind = "cycle"
    /\ walk.chain.size = 3
    /\ walk.chain.tail.to = 2
    /\ walk.depth = maxDepth
    /\ walk.result = 3

====
